---- MODULE Spec2Model ----
(***************************************************************************)
(* Model of the team directory service (src/service.py): three SQLite      *)
(* tables (teams, team_members, chat_teams) and the five mutating          *)
(* operations of TeamManagementService.                                    *)
(*                                                                         *)
(* Strings are sequences of one-character strings, so that str.lower()     *)
(* and str.replace("@", "") are computed and not assumed.  A table is a    *)
(* bag of rows, so that a primary key is something the INSERT enforces.    *)
(* A returned list is a bag of values (SQL gives no order without          *)
(* ORDER BY, and a list may repeat a value).                               *)
(***************************************************************************)
EXTENDS Integers, Sequences, FiniteSets, Bags, TLC

VARIABLES teams, team_members, chat_teams, last, calls, wlock, base

vars == <<teams, team_members, chat_teams, last, calls, wlock, base>>

(***************************************************************************)
(* Bounds and input sets.                                                  *)
(***************************************************************************)
NumChats == 2

ChatIds == 100 .. (99 + NumChats)

TeamInputs == { <<"e","n","g">>, <<"E","n","g">>, <<"o","p","s">> }

UserInputs == { <<"@","A","l","i","c","e">>, <<"A","l","i","c","e">>, <<"a","l","i","c","e">> }

Procs == {"p1", "p2"}

ConcTeamInputs == { <<"e","n","g">> }

ConcUserInputs == { <<"a","l","i","c","e">>, <<"b","o","b">> }

NoStr == << >>

(***************************************************************************)
(* Python string methods.                                                  *)
(***************************************************************************)
UpperLetters == <<"A","B","C","D","E","F","G","H","I","J","K","L","M",
                  "N","O","P","Q","R","S","T","U","V","W","X","Y","Z">>

LowerLetters == <<"a","b","c","d","e","f","g","h","i","j","k","l","m",
                  "n","o","p","q","r","s","t","u","v","w","x","y","z">>

LowerChar(c) ==
    IF \E i \in DOMAIN UpperLetters : UpperLetters[i] = c
    THEN LowerLetters[CHOOSE i \in DOMAIN UpperLetters : UpperLetters[i] = c]
    ELSE c

\* str.lower()
lower(s) == [i \in DOMAIN s |-> LowerChar(s[i])]

IsNotAt(c) == c # "@"

\* str.replace("@", "")
replace_at(s) == SelectSeq(s, IsNotAt)

\* team_name = team_name.lower()
NormTeam(team_name) == lower(team_name)

\* username = username.replace("@", "")
NormUser(username) == replace_at(username)

\* ord(c) of the characters that occur
CodePoint(c) ==
    IF \E i \in DOMAIN UpperLetters : UpperLetters[i] = c
    THEN 64 + (CHOOSE i \in DOMAIN UpperLetters : UpperLetters[i] = c)
    ELSE IF \E i \in DOMAIN LowerLetters : LowerLetters[i] = c
    THEN 96 + (CHOOSE i \in DOMAIN LowerLetters : LowerLetters[i] = c)
    ELSE 64

RECURSIVE LexLess(_, _)
\* a < b for TEXT values under SQLite's default BINARY collation
LexLess(a, b) ==
    IF a = << >> THEN b # << >>
    ELSE IF b = << >> THEN FALSE
    ELSE IF a[1] = b[1] THEN LexLess(Tail(a), Tail(b))
    ELSE CodePoint(a[1]) < CodePoint(b[1])

(***************************************************************************)
(* The store: the three tables of setup_database, and the SQL statements   *)
(* the service issues.  FOREIGN KEY clauses are declared but no            *)
(* connection issues PRAGMA foreign_keys = ON, so SQLite does not enforce  *)
(* them; PRIMARY KEY is enforced by every INSERT.                          *)
(***************************************************************************)
EmptyDB == [teams |-> EmptyBag, team_members |-> EmptyBag, chat_teams |-> EmptyBag]

DB == [teams |-> teams, team_members |-> team_members, chat_teams |-> chat_teams]

\* a table declared without its PRIMARY KEY
NoPrimaryKey(table, row) == FALSE

\* PRIMARY KEY: an INSERT of a row whose key is in the table raises IntegrityError
ViolatesPrimaryKey(table, row) == BagIn(row, table)

\* INSERT INTO table VALUES row (after the key check)
InsertRow(table, row) == table (+) SetToBag({row})

\* the existence check left out
TeamExistsUnchecked(db, t) == TRUE

\* SELECT team_name FROM teams WHERE team_name = ? ... fetchone() is not None
TeamExists(db, t) == BagIn(t, db.teams)

\* the rows of a table, each once
Rows(table) == BagToSet(table)

\* the rows S of a table, as often as the table holds them (a WHERE clause)
Restrict(table, S) == [r \in S |-> table[r]]

\* the bag of the values of column k over a bag of rows (SELECT column)
Column(rows, k) ==
    LET V == {r[k] : r \in Rows(rows)}
        RECURSIVE Sum(_)
        Sum(S) == IF S = {} THEN 0
                  ELSE LET r == CHOOSE x \in S : TRUE
                       IN  rows[r] + Sum(S \ {r})
    IN  [v \in V |-> Sum({r \in Rows(rows) : r[k] = v})]

\* SELECT DISTINCT: every value once
Distinct(b) == SetToBag(BagToSet(b))

\* the WHERE clause left out
SelectChatsOfAnyTeam(db, t) == Column(db.chat_teams, 1)

\* SELECT chat_id FROM chat_teams WHERE team_name = ?
SelectChatsOfTeam(db, t) ==
    Column(Restrict(db.chat_teams, {r \in Rows(db.chat_teams) : r[2] = t}), 1)

\* the WHERE clause left out
SelectMembersOfAnyTeam(db, t) == Column(db.team_members, 1)

\* SELECT username FROM team_members WHERE team_name = ?
SelectMembersOfTeam(db, t) ==
    Column(Restrict(db.team_members, {r \in Rows(db.team_members) : r[2] = t}), 1)

\* SELECT team_name FROM team_members WHERE username = ?
SelectTeamsOfUser(db, u) ==
    Column(Restrict(db.team_members, {r \in Rows(db.team_members) : r[1] = u}), 2)

\* SELECT team_name FROM chat_teams WHERE chat_id = ?
SelectTeamsOfChat(db, c) ==
    Column(Restrict(db.chat_teams, {r \in Rows(db.chat_teams) : r[1] = c}), 2)

RECURSIVE OrderBy(_)
\* ORDER BY a TEXT column, ascending: the rows of b as a sequence
OrderBy(b) ==
    IF BagToSet(b) = {} THEN << >>
    ELSE LET m == CHOOSE x \in BagToSet(b) :
                      \A y \in BagToSet(b) : x = y \/ LexLess(x, y)
         IN  <<m>> \o OrderBy(b (-) SetToBag({m}))

\* SELECT chat_id FROM chat_teams WHERE team_name IN (SELECT team_name ...)
\* without the DISTINCT
SelectChatsOfUserAll(db, u) ==
    Column(Restrict(db.chat_teams,
                    {r \in Rows(db.chat_teams) : BagIn(r[2], SelectTeamsOfUser(db, u))}),
           1)

\* the DISTINCT left out
SelectChatsOfUserNoDistinct(db, u) == SelectChatsOfUserAll(db, u)

\* SELECT DISTINCT chat_id FROM chat_teams WHERE team_name IN (SELECT ...)
SelectChatsOfUser(db, u) == Distinct(SelectChatsOfUserAll(db, u))

\* DELETE FROM team_members WHERE username = ? AND team_name = ?
DeleteMember(table, u, t) ==
    Restrict(table, {r \in Rows(table) : ~(r[1] = u /\ r[2] = t)})

\* the WHERE clause left out: DELETE FROM team_members
DeleteEveryUser(table, u) == EmptyBag

\* DELETE FROM team_members WHERE username = ?
DeleteUser(table, u) == Restrict(table, {r \in Rows(table) : r[1] # u})

\* cursor.rowcount of a DELETE
RowCount(before, after) == BagCardinality(before) - BagCardinality(after)

(***************************************************************************)
(* The operations of TeamManagementService, each as the function from the  *)
(* store before the call to the store after it and the response.  f is     *)
(* the storage statement of the call (counted from 1 among the statements  *)
(* the call executes) that raises a sqlite3 error other than               *)
(* IntegrityError; f = 0 is a call without one.  A call that leaves its    *)
(* "with" block before conn.commit() loses its uncommitted statement when  *)
(* the connection is closed.                                               *)
(***************************************************************************)
Result(db, success, message, list) ==
    [db |-> db, success |-> success, message |-> message, list |-> list]

\* except Exception: "Internal server error"
InternalError(db) == Result(db, FALSE, "InternalError", EmptyBag)

\* team_name.lower() left out
create_team_no_lower(db, team_name, f) ==
    IF f = 1 THEN InternalError(db)
    ELSE IF ViolatesPrimaryKey(db.teams, team_name)
         THEN Result(db, FALSE, "AlreadyExists", EmptyBag)
    ELSE IF f = 2 THEN InternalError(db)
    ELSE Result([db EXCEPT !.teams = InsertRow(@, team_name)], TRUE, "Created", EmptyBag)

create_team(db, team_name, f) ==
    LET t == NormTeam(team_name) IN
    IF f = 1 THEN InternalError(db)
    ELSE IF ViolatesPrimaryKey(db.teams, t)
         THEN Result(db, FALSE, "AlreadyExists", EmptyBag)
    ELSE IF f = 2 THEN InternalError(db)
    ELSE Result([db EXCEPT !.teams = InsertRow(@, t)], TRUE, "Created", EmptyBag)

\* the "Check if team exists" block left out
add_member_to_team_no_check(db, username, team_name, f) ==
    LET u == NormUser(username)
        t == NormTeam(team_name)
        committed == [db EXCEPT !.team_members = InsertRow(@, <<u, t>>)]
    IN
    IF f \in {1, 2} THEN InternalError(db)
    ELSE IF ViolatesPrimaryKey(db.team_members, <<u, t>>)
         THEN Result(db, FALSE, "AlreadyMember", EmptyBag)
    ELSE IF f = 3 THEN InternalError(db)
    ELSE IF f = 4 THEN InternalError(committed)
    ELSE Result(committed, TRUE, "Added", SelectChatsOfTeam(committed, t))

add_member_to_team(db, username, team_name, f) ==
    LET u == NormUser(username)
        t == NormTeam(team_name)
        committed == [db EXCEPT !.team_members = InsertRow(@, <<u, t>>)]
    IN
    IF f = 1 THEN InternalError(db)
    ELSE IF ~TeamExists(db, t) THEN Result(db, FALSE, "NotFound", EmptyBag)
    ELSE IF f = 2 THEN InternalError(db)
    ELSE IF ViolatesPrimaryKey(db.team_members, <<u, t>>)
         THEN Result(db, FALSE, "AlreadyMember", EmptyBag)
    ELSE IF f = 3 THEN InternalError(db)
    ELSE IF f = 4 THEN InternalError(committed)
    ELSE Result(committed, TRUE, "Added", SelectChatsOfTeam(committed, t))

remove_member_from_team(db, username, team_name, f) ==
    LET u == NormUser(username)
        t == NormTeam(team_name)
        after == DeleteMember(db.team_members, u, t)
        committed == [db EXCEPT !.team_members = after]
    IN
    IF f = 1 THEN InternalError(db)
    ELSE IF RowCount(db.team_members, after) = 0
         THEN Result(db, FALSE, "NotAMember", EmptyBag)
    ELSE IF f = 2 THEN InternalError(db)
    ELSE IF f = 3 THEN InternalError(committed)
    ELSE Result(committed, TRUE, "Removed", SelectChatsOfTeam(committed, t))

add_team_to_chat(db, chat_id, team_name, f) ==
    LET t == NormTeam(team_name)
        committed == [db EXCEPT !.chat_teams = InsertRow(@, <<chat_id, t>>)]
    IN
    IF f = 1 THEN InternalError(db)
    ELSE IF ~TeamExists(db, t) THEN Result(db, FALSE, "NotFound", EmptyBag)
    ELSE IF f = 2 THEN InternalError(db)
    ELSE IF ViolatesPrimaryKey(db.chat_teams, <<chat_id, t>>)
         THEN Result(db, FALSE, "AlreadyLinked", EmptyBag)
    ELSE IF f = 3 THEN InternalError(db)
    ELSE IF f = 4 THEN InternalError(committed)
    ELSE Result(committed, TRUE, "Linked", SelectMembersOfTeam(committed, t))

offboard_user(db, username, f) ==
    LET u == NormUser(username)
        chats == SelectChatsOfUser(db, u)
        after == DeleteUser(db.team_members, u)
        committed == [db EXCEPT !.team_members = after]
    IN
    IF f = 1 THEN InternalError(db)
    ELSE IF f = 2 THEN InternalError(db)
    ELSE IF RowCount(db.team_members, after) = 0
         THEN Result(db, FALSE, "NotInAnyTeam", EmptyBag)
    ELSE IF f = 3 THEN InternalError(db)
    ELSE Result(committed, TRUE, "Offboarded", chats)

\* ListUserTeams
get_user_teams(db, username) == SelectTeamsOfUser(db, NormUser(username))

\* ListChatTeams
get_chat_teams(db, chat_id) == SelectTeamsOfChat(db, chat_id)

\* SELECT team_name FROM team_members: the wrong table
get_teams_with_members(db) == OrderBy(Distinct(Column(db.team_members, 2)))

\* ListTeams
get_teams(db) == OrderBy(db.teams)

\* ORDER BY username left out, as in the definition this one replaces: the
\* store chooses the order of the rows, here the descending one
get_team_members_no_order_by(db, team_name) ==
    LET s == OrderBy(SelectMembersOfTeam(db, NormTeam(team_name)))
    IN  [i \in 1 .. Len(s) |-> s[Len(s) + 1 - i]]

\* ListTeamMembers: the second definition of the class, which is the one
\* the class ends up with
get_team_members(db, team_name) ==
    OrderBy(SelectMembersOfTeam(db, NormTeam(team_name)))

\* an exception of the store leaves a method that has no try statement
Raised(db) == Result(db, FALSE, "Raised", EmptyBag)

\* a query method: with self.db.get_connection() as conn: execute, return
\* the rows
Query(db, list, f) ==
    IF f = 1 THEN Raised(db)
    ELSE Result(db, TRUE, "List", list)

(***************************************************************************)
(* One caller at a time: every action is one whole call of the service.    *)
(* last is the call that returned last: its arguments as passed, its       *)
(* response and the store it started from.                                 *)
(***************************************************************************)
NoCall ==
    [op |-> "none", username |-> NoStr, team_name |-> NoStr, chat_id |-> 0,
     success |-> FALSE, message |-> "none", list |-> EmptyBag, pre |-> EmptyDB]

IdleProc ==
    [op |-> "none", username |-> NoStr, team_name |-> NoStr, chat_id |-> 0,
     pc |-> "idle", chats |-> EmptyBag,
     success |-> FALSE, message |-> "none", list |-> EmptyBag]

Init ==
    /\ teams = EmptyBag
    /\ team_members = EmptyBag
    /\ chat_teams = EmptyBag
    /\ last = NoCall
    /\ calls = [p \in Procs |-> IdleProc]
    /\ wlock = "none"
    /\ base = EmptyDB

Returns(op, username, team_name, chat_id, r) ==
    /\ teams' = r.db.teams
    /\ team_members' = r.db.team_members
    /\ chat_teams' = r.db.chat_teams
    /\ last' = [op |-> op, username |-> username, team_name |-> team_name,
                chat_id |-> chat_id, success |-> r.success,
                message |-> r.message, list |-> r.list, pre |-> DB]
    /\ UNCHANGED <<calls, wlock, base>>

CreateTeamCall(F) ==
    \E team_name \in TeamInputs, f \in F :
        LET r == create_team(DB, team_name, f)
        IN  Returns("create_team", NoStr, team_name, 0, r)

AddMemberCall(F) ==
    \E username \in UserInputs, team_name \in TeamInputs, f \in F :
        LET r == add_member_to_team(DB, username, team_name, f)
        IN  Returns("add_member_to_team", username, team_name, 0, r)

RemoveMemberCall(F) ==
    \E username \in UserInputs, team_name \in TeamInputs, f \in F :
        LET r == remove_member_from_team(DB, username, team_name, f)
        IN  Returns("remove_member_from_team", username, team_name, 0, r)

AddTeamToChatCall(F) ==
    \E chat_id \in ChatIds, team_name \in TeamInputs, f \in F :
        LET r == add_team_to_chat(DB, chat_id, team_name, f)
        IN  Returns("add_team_to_chat", NoStr, team_name, chat_id, r)

OffboardUserCall(F) ==
    \E username \in UserInputs, f \in F :
        LET r == offboard_user(DB, username, f)
        IN  Returns("offboard_user", username, NoStr, 0, r)

ListTeamsCall(F) ==
    \E f \in F :
        LET r == Query(DB, get_teams(DB), f)
        IN  Returns("get_teams", NoStr, NoStr, 0, r)

ListTeamMembersCall(F) ==
    \E team_name \in TeamInputs, f \in F :
        LET r == Query(DB, get_team_members(DB, team_name), f)
        IN  Returns("get_team_members", NoStr, team_name, 0, r)

ListUserTeamsCall(F) ==
    \E username \in UserInputs, f \in F :
        LET r == Query(DB, get_user_teams(DB, username), f)
        IN  Returns("get_user_teams", username, NoStr, 0, r)

ListChatTeamsCall(F) ==
    \E chat_id \in ChatIds, f \in F :
        LET r == Query(DB, get_chat_teams(DB, chat_id), f)
        IN  Returns("get_chat_teams", NoStr, NoStr, chat_id, r)

\* calls during which the store works
CreateTeam == CreateTeamCall({0})

AddMember == AddMemberCall({0})

RemoveMember == RemoveMemberCall({0})

AddTeamToChat == AddTeamToChatCall({0})

OffboardUser == OffboardUserCall({0})

ListTeams == ListTeamsCall({0})

ListTeamMembers == ListTeamMembersCall({0})

ListUserTeams == ListUserTeamsCall({0})

ListChatTeams == ListChatTeamsCall({0})

Next ==
    \/ CreateTeam
    \/ AddMember
    \/ RemoveMember
    \/ AddTeamToChat
    \/ OffboardUser
    \/ ListTeams
    \/ ListTeamMembers
    \/ ListUserTeams
    \/ ListChatTeams

Spec == Init /\ [][Next]_vars

\* calls during which any one storage statement may fail
CreateTeamFaulty == CreateTeamCall(0 .. 2)

AddMemberFaulty == AddMemberCall(0 .. 4)

RemoveMemberFaulty == RemoveMemberCall(0 .. 3)

AddTeamToChatFaulty == AddTeamToChatCall(0 .. 4)

OffboardUserFaulty == OffboardUserCall(0 .. 3)

ListTeamsFaulty == ListTeamsCall(0 .. 1)

ListTeamMembersFaulty == ListTeamMembersCall(0 .. 1)

ListUserTeamsFaulty == ListUserTeamsCall(0 .. 1)

ListChatTeamsFaulty == ListChatTeamsCall(0 .. 1)

FaultNext ==
    \/ CreateTeamFaulty
    \/ AddMemberFaulty
    \/ RemoveMemberFaulty
    \/ AddTeamToChatFaulty
    \/ OffboardUserFaulty
    \/ ListTeamsFaulty
    \/ ListTeamMembersFaulty
    \/ ListUserTeamsFaulty
    \/ ListChatTeamsFaulty

FaultSpec == Init /\ [][FaultNext]_vars

(***************************************************************************)
(* Concurrent callers.  Each call opens its own connection                 *)
(* (get_connection), so the statements of two calls interleave; one        *)
(* action is one statement.  With the sqlite3 module's default             *)
(* isolation_level a SELECT runs in autocommit mode and reads the          *)
(* committed store, and an INSERT or DELETE opens a transaction that       *)
(* holds the database's write lock until conn.commit() or until the        *)
(* connection is closed; a second writer waits for the lock.               *)
(* calls[p] is the call of caller p: its arguments, the statement it is    *)
(* at (pc), the local variable chats of offboard_user, and its response.   *)
(* base is the store when the callers last were all idle.                  *)
(***************************************************************************)
ConcCalls ==
    {[IdleProc EXCEPT !.op = "create_team", !.team_name = t, !.pc = "insert"] :
        t \in ConcTeamInputs}
    \cup
    {[IdleProc EXCEPT !.op = "add_member_to_team", !.username = u,
                      !.team_name = t, !.pc = "check"] :
        u \in ConcUserInputs, t \in ConcTeamInputs}
    \cup
    {[IdleProc EXCEPT !.op = "remove_member_from_team", !.username = u,
                      !.team_name = t, !.pc = "delete"] :
        u \in ConcUserInputs, t \in ConcTeamInputs}
    \cup
    {[IdleProc EXCEPT !.op = "add_team_to_chat", !.chat_id = c,
                      !.team_name = t, !.pc = "check"] :
        c \in ChatIds, t \in ConcTeamInputs}
    \cup
    {[IdleProc EXCEPT !.op = "offboard_user", !.username = u, !.pc = "select"] :
        u \in ConcUserInputs}

At(p, op, pc) == calls[p].op = op /\ calls[p].pc = pc

Goto(p, pc) == calls' = [calls EXCEPT ![p].pc = pc]

Return(p, success, message, list) ==
    calls' = [calls EXCEPT ![p].pc = "done", ![p].success = success,
                           ![p].message = message, ![p].list = list]

\* the caller enters the method
Invoke(p) ==
    /\ calls[p].pc = "idle"
    /\ \E c \in ConcCalls : calls' = [calls EXCEPT ![p] = c]
    /\ UNCHANGED <<teams, team_members, chat_teams, last, wlock, base>>

\* cursor.execute("INSERT INTO teams ...")
create_team_insert(p) ==
    /\ At(p, "create_team", "insert")
    /\ wlock = "none"
    /\ IF ViolatesPrimaryKey(teams, NormTeam(calls[p].team_name))
       THEN Return(p, FALSE, "AlreadyExists", EmptyBag) /\ UNCHANGED wlock
       ELSE Goto(p, "commit") /\ wlock' = p
    /\ UNCHANGED <<teams, team_members, chat_teams, last, base>>

\* conn.commit(); return
create_team_commit(p) ==
    /\ At(p, "create_team", "commit")
    /\ wlock = p
    /\ teams' = InsertRow(teams, NormTeam(calls[p].team_name))
    /\ wlock' = "none"
    /\ Return(p, TRUE, "Created", EmptyBag)
    /\ UNCHANGED <<team_members, chat_teams, last, base>>

\* cursor.execute("SELECT team_name FROM teams ..."); if not cursor.fetchone()
add_member_check(p) ==
    /\ At(p, "add_member_to_team", "check")
    /\ IF TeamExists(DB, NormTeam(calls[p].team_name))
       THEN Goto(p, "insert")
       ELSE Return(p, FALSE, "NotFound", EmptyBag)
    /\ UNCHANGED <<teams, team_members, chat_teams, last, wlock, base>>

\* the except sqlite3.IntegrityError clause left out: the constraint
\* violation reaches except Exception
add_member_insert_no_integrity_clause(p) ==
    /\ At(p, "add_member_to_team", "insert")
    /\ wlock = "none"
    /\ IF ViolatesPrimaryKey(team_members,
              <<NormUser(calls[p].username), NormTeam(calls[p].team_name)>>)
       THEN Return(p, FALSE, "InternalError", EmptyBag) /\ UNCHANGED wlock
       ELSE Goto(p, "commit") /\ wlock' = p
    /\ UNCHANGED <<teams, team_members, chat_teams, last, base>>

\* cursor.execute("INSERT INTO team_members ...")
add_member_insert(p) ==
    /\ At(p, "add_member_to_team", "insert")
    /\ wlock = "none"
    /\ IF ViolatesPrimaryKey(team_members,
              <<NormUser(calls[p].username), NormTeam(calls[p].team_name)>>)
       THEN Return(p, FALSE, "AlreadyMember", EmptyBag) /\ UNCHANGED wlock
       ELSE Goto(p, "commit") /\ wlock' = p
    /\ UNCHANGED <<teams, team_members, chat_teams, last, base>>

\* conn.commit()
add_member_commit(p) ==
    /\ At(p, "add_member_to_team", "commit")
    /\ wlock = p
    /\ team_members' = InsertRow(team_members,
              <<NormUser(calls[p].username), NormTeam(calls[p].team_name)>>)
    /\ wlock' = "none"
    /\ Goto(p, "select")
    /\ UNCHANGED <<teams, chat_teams, last, base>>

\* the chats read before the call's own INSERT and commit, from the store
\* as it was when the callers started
add_member_select_before_insert(p) ==
    /\ At(p, "add_member_to_team", "select")
    /\ Return(p, TRUE, "Added", SelectChatsOfTeam(base, NormTeam(calls[p].team_name)))
    /\ UNCHANGED <<teams, team_members, chat_teams, last, wlock, base>>

\* cursor.execute("SELECT chat_id FROM chat_teams ..."); return
add_member_select(p) ==
    /\ At(p, "add_member_to_team", "select")
    /\ Return(p, TRUE, "Added", SelectChatsOfTeam(DB, NormTeam(calls[p].team_name)))
    /\ UNCHANGED <<teams, team_members, chat_teams, last, wlock, base>>

\* cursor.execute("DELETE FROM team_members ..."); if cursor.rowcount == 0
remove_member_delete(p) ==
    /\ At(p, "remove_member_from_team", "delete")
    /\ wlock = "none"
    /\ IF RowCount(team_members,
                   DeleteMember(team_members, NormUser(calls[p].username),
                                NormTeam(calls[p].team_name))) = 0
       THEN Return(p, FALSE, "NotAMember", EmptyBag) /\ UNCHANGED wlock
       ELSE Goto(p, "commit") /\ wlock' = p
    /\ UNCHANGED <<teams, team_members, chat_teams, last, base>>

\* conn.commit()
remove_member_commit(p) ==
    /\ At(p, "remove_member_from_team", "commit")
    /\ wlock = p
    /\ team_members' = DeleteMember(team_members, NormUser(calls[p].username),
                                    NormTeam(calls[p].team_name))
    /\ wlock' = "none"
    /\ Goto(p, "select")
    /\ UNCHANGED <<teams, chat_teams, last, base>>

\* cursor.execute("SELECT chat_id FROM chat_teams ..."); return
remove_member_select(p) ==
    /\ At(p, "remove_member_from_team", "select")
    /\ Return(p, TRUE, "Removed", SelectChatsOfTeam(DB, NormTeam(calls[p].team_name)))
    /\ UNCHANGED <<teams, team_members, chat_teams, last, wlock, base>>

\* cursor.execute("SELECT team_name FROM teams ..."); if not cursor.fetchone()
add_team_to_chat_check(p) ==
    /\ At(p, "add_team_to_chat", "check")
    /\ IF TeamExists(DB, NormTeam(calls[p].team_name))
       THEN Goto(p, "insert")
       ELSE Return(p, FALSE, "NotFound", EmptyBag)
    /\ UNCHANGED <<teams, team_members, chat_teams, last, wlock, base>>

\* cursor.execute("INSERT INTO chat_teams ...")
add_team_to_chat_insert(p) ==
    /\ At(p, "add_team_to_chat", "insert")
    /\ wlock = "none"
    /\ IF ViolatesPrimaryKey(chat_teams,
              <<calls[p].chat_id, NormTeam(calls[p].team_name)>>)
       THEN Return(p, FALSE, "AlreadyLinked", EmptyBag) /\ UNCHANGED wlock
       ELSE Goto(p, "commit") /\ wlock' = p
    /\ UNCHANGED <<teams, team_members, chat_teams, last, base>>

\* conn.commit()
add_team_to_chat_commit(p) ==
    /\ At(p, "add_team_to_chat", "commit")
    /\ wlock = p
    /\ chat_teams' = InsertRow(chat_teams,
              <<calls[p].chat_id, NormTeam(calls[p].team_name)>>)
    /\ wlock' = "none"
    /\ Goto(p, "select")
    /\ UNCHANGED <<teams, team_members, last, base>>

\* cursor.execute("SELECT username FROM team_members ..."); return
add_team_to_chat_select(p) ==
    /\ At(p, "add_team_to_chat", "select")
    /\ Return(p, TRUE, "Linked", SelectMembersOfTeam(DB, NormTeam(calls[p].team_name)))
    /\ UNCHANGED <<teams, team_members, chat_teams, last, wlock, base>>

\* cursor.execute("SELECT DISTINCT chat_id ..."); chats = cursor.fetchall()
offboard_user_select(p) ==
    /\ At(p, "offboard_user", "select")
    /\ calls' = [calls EXCEPT ![p].pc = "delete",
                              ![p].chats = SelectChatsOfUser(DB, NormUser(calls[p].username))]
    /\ UNCHANGED <<teams, team_members, chat_teams, last, wlock, base>>

\* cursor.execute("DELETE FROM team_members WHERE username = ?"); rowcount
offboard_user_delete(p) ==
    /\ At(p, "offboard_user", "delete")
    /\ wlock = "none"
    /\ IF RowCount(team_members,
                   DeleteUser(team_members, NormUser(calls[p].username))) = 0
       THEN Return(p, FALSE, "NotInAnyTeam", EmptyBag) /\ UNCHANGED wlock
       ELSE Goto(p, "commit") /\ wlock' = p
    /\ UNCHANGED <<teams, team_members, chat_teams, last, base>>

\* conn.commit(); return
offboard_user_commit(p) ==
    /\ At(p, "offboard_user", "commit")
    /\ wlock = p
    /\ team_members' = DeleteUser(team_members, NormUser(calls[p].username))
    /\ wlock' = "none"
    /\ Return(p, TRUE, "Offboarded", calls[p].chats)
    /\ UNCHANGED <<teams, chat_teams, last, base>>

Running == {p \in Procs : calls[p].pc \notin {"idle", "done"}}

Returned == {p \in Procs : calls[p].pc = "done"}

\* the callers have their responses; the next calls start from this store
Quiesce ==
    /\ Running = {}
    /\ Returned # {}
    /\ calls' = [p \in Procs |-> IdleProc]
    /\ base' = DB
    /\ UNCHANGED <<teams, team_members, chat_teams, last, wlock>>

ConcNext ==
    \/ \E p \in Procs : Invoke(p)
    \/ \E p \in Procs : create_team_insert(p)
    \/ \E p \in Procs : create_team_commit(p)
    \/ \E p \in Procs : add_member_check(p)
    \/ \E p \in Procs : add_member_insert(p)
    \/ \E p \in Procs : add_member_commit(p)
    \/ \E p \in Procs : add_member_select(p)
    \/ \E p \in Procs : remove_member_delete(p)
    \/ \E p \in Procs : remove_member_commit(p)
    \/ \E p \in Procs : remove_member_select(p)
    \/ \E p \in Procs : add_team_to_chat_check(p)
    \/ \E p \in Procs : add_team_to_chat_insert(p)
    \/ \E p \in Procs : add_team_to_chat_commit(p)
    \/ \E p \in Procs : add_team_to_chat_select(p)
    \/ \E p \in Procs : offboard_user_select(p)
    \/ \E p \in Procs : offboard_user_delete(p)
    \/ \E p \in Procs : offboard_user_commit(p)
    \/ Quiesce

ConcSpec == Init /\ [][ConcNext]_vars

(***************************************************************************)
(* Values the claims are stated with.                                      *)
(***************************************************************************)
Eng == <<"e","n","g">>

Ops == <<"o","p","s">>

Bag1(S) == [x \in S |-> 1]

\* the canonical username of the data model: a leading "@" stripped, lower-cased
Canon(username) ==
    lower(IF username # << >> /\ Head(username) = "@" THEN Tail(username) ELSE username)

\* the same call made on its own, the store working
Apply(db, c) ==
    CASE c.op = "create_team" -> create_team(db, c.team_name, 0)
      [] c.op = "add_member_to_team" ->
            add_member_to_team(db, c.username, c.team_name, 0)
      [] c.op = "remove_member_from_team" ->
            remove_member_from_team(db, c.username, c.team_name, 0)
      [] c.op = "add_team_to_chat" -> add_team_to_chat(db, c.chat_id, c.team_name, 0)
      [] c.op = "offboard_user" -> offboard_user(db, c.username, 0)

Orders(S) ==
    {o \in [1 .. Cardinality(S) -> S] : \A i, j \in DOMAIN o : o[i] = o[j] => i = j}

RECURSIVE SerialRun(_, _, _)
\* the calls of the callers order[i..], made one after another from db, give
\* the responses the callers have and end in the present store
SerialRun(db, order, i) ==
    IF i > Len(order) THEN db = DB
    ELSE LET c == calls[order[i]]
             r == Apply(db, c)
         IN  /\ r.success = c.success
             /\ r.message = c.message
             /\ r.list = c.list
             /\ SerialRun(r.db, order, i + 1)

(***************************************************************************)
(* C1.  Referential integrity: in every state reachable by any             *)
(* interleaving of the statements of concurrent calls, the team name of    *)
(* every row of team_members and of every row of chat_teams is a row of    *)
(* teams.                                                                  *)
(***************************************************************************)
C1_ReferentialIntegrity ==
    /\ \A r \in Rows(team_members) : BagIn(r[2], teams)
    /\ \A r \in Rows(chat_teams) : BagIn(r[2], teams)

\* both tables hold a row while one caller is about to commit an insert and
\* the other is in the middle of its call
C1_Witness ==
    /\ team_members # EmptyBag
    /\ chat_teams # EmptyBag
    /\ \E p, q \in Procs :
          /\ p # q
          /\ At(p, "add_member_to_team", "commit")
          /\ calls[q].op = "add_team_to_chat"
          /\ calls[q].pc = "select"

(***************************************************************************)
(* C2.  Each operation is one atomic step: whenever concurrent calls have  *)
(* all returned, their responses (outcome and returned list) and the       *)
(* store are those of the same calls made one at a time, in some order,    *)
(* from the store the calls started from.                                  *)
(***************************************************************************)
C2_AtomicOperations ==
    (Running = {} /\ Returned # {}) =>
        \E order \in Orders(Returned) : SerialRun(base, order, 1)

(***************************************************************************)
(* C3.  Every mutation is fully committed or fully rolled back: a call     *)
(* that returns success = false, a storage fault at any of its statements  *)
(* included, leaves the three tables as they were before the call.         *)
(***************************************************************************)
C3_FailureChangesNothing ==
    (last.op # "none" /\ ~last.success) => DB = last.pre

(***************************************************************************)
(* C4.  OffboardUser(u) for a user with at least one membership row        *)
(* succeeds, returns each chat linked to a team the user was in before     *)
(* the call exactly once, and leaves ListUserTeams(u) empty; for a user    *)
(* with no membership row it returns NotInAnyTeam.                         *)
(***************************************************************************)
C4_MembershipsBefore == {r \in Rows(last.pre.team_members) : r[1] = NormUser(last.username)}

C4_ChatsBefore ==
    {r[1] : r \in {x \in Rows(last.pre.chat_teams) :
                      \E m \in C4_MembershipsBefore : m[2] = x[2]}}

C4_Offboard ==
    last.op = "offboard_user" =>
        IF C4_MembershipsBefore # {}
        THEN /\ last.success
             /\ last.list = Bag1(C4_ChatsBefore)
             /\ get_user_teams(DB, last.username) = EmptyBag
        ELSE /\ ~last.success
             /\ last.message = "NotInAnyTeam"

\* the user was in both teams, one chat was linked to both, and two chats
\* are returned
C4_Witness ==
    /\ last.op = "offboard_user"
    /\ last.success
    /\ BagCardinality(last.list) = 2
    /\ {m[2] : m \in C4_MembershipsBefore} = {Eng, Ops}
    /\ \E c \in ChatIds : {<<c, Eng>>, <<c, Ops>>} \subseteq Rows(last.pre.chat_teams)

(***************************************************************************)
(* C5.  For a pair (user, team) of an existing team: an AddMember that     *)
(* follows an AddMember of the same pair returns AlreadyMember and leaves  *)
(* exactly one membership row; a RemoveMember that follows a successful    *)
(* AddMember succeeds, and an AddMember that follows a successful          *)
(* RemoveMember succeeds (so add, remove, add succeeds three times).       *)
(***************************************************************************)
SamePair(a, b) ==
    /\ NormUser(a.username) = NormUser(b.username)
    /\ NormTeam(a.team_name) = NormTeam(b.team_name)

PairOf(c) == <<NormUser(c.username), NormTeam(c.team_name)>>

C5_Step ==
    /\ ( /\ last.op = "add_member_to_team"
         /\ last.message \in {"Added", "AlreadyMember"}
         /\ last'.op = "add_member_to_team"
         /\ SamePair(last, last') )
       => ( /\ ~last'.success
            /\ last'.message = "AlreadyMember"
            /\ CopiesIn(PairOf(last'), team_members') = 1 )
    /\ ( /\ last.op = "add_member_to_team"
         /\ last.success
         /\ last'.op = "remove_member_from_team"
         /\ SamePair(last, last') )
       => ( /\ last'.success
            /\ CopiesIn(PairOf(last'), team_members') = 0 )
    /\ ( /\ last.op = "remove_member_from_team"
         /\ last.success
         /\ last'.op = "add_member_to_team"
         /\ SamePair(last, last') )
       => ( /\ last'.success
            /\ CopiesIn(PairOf(last'), team_members') = 1 )

C5_AddRemoveAdd == [][C5_Step]_vars

\* an AddMember written with an "@" was refused as AlreadyMember: the pair
\* was in the store it started from, and is there once
C5_Witness ==
    /\ last.op = "add_member_to_team"
    /\ last.message = "AlreadyMember"
    /\ last.username # NormUser(last.username)
    /\ CopiesIn(PairOf(last), last.pre.team_members) = 1
    /\ CopiesIn(PairOf(last), team_members) = 1

(***************************************************************************)
(* C6.  Usernames are canonicalised (leading "@" stripped, lower-cased)    *)
(* and team names lower-cased before every lookup and write, so two calls  *)
(* whose usernames differ only by a leading "@" or by letter case address  *)
(* the same membership: a RemoveMember that follows a successful           *)
(* AddMember of such a pair succeeds and removes the membership            *)
(* (AddMember("@Alice", "Eng") then RemoveMember("alice", "eng")).         *)
(***************************************************************************)
C6_Step ==
    ( /\ last.op = "add_member_to_team"
      /\ last.success
      /\ last'.op = "remove_member_from_team"
      /\ Canon(last'.username) = Canon(last.username)
      /\ lower(last'.team_name) = lower(last.team_name) )
    => ( /\ last'.success
         /\ CopiesIn(PairOf(last), team_members') = 0 )

C6_SameMembership == [][C6_Step]_vars

\* the claim's last clause: every stored username is in canonical form
C6_StoredCanonical == \A r \in Rows(team_members) : r[1] = Canon(r[1])

(***************************************************************************)
(* C7.  A CreateTeam of a name that equals, up to letter case, the name    *)
(* of a successful CreateTeam before it (the one just before it, or any    *)
(* earlier one, whose row is in teams) returns AlreadyExists, and teams    *)
(* still holds exactly one row for the lower-cased name.                   *)
(***************************************************************************)
C7_Step ==
    ( /\ last'.op = "create_team"
      /\ \/ /\ last.op = "create_team"
            /\ last.success
            /\ lower(last.team_name) = lower(last'.team_name)
         \/ BagIn(lower(last'.team_name), teams) )
    => ( /\ ~last'.success
         /\ last'.message = "AlreadyExists"
         /\ CopiesIn(lower(last'.team_name), teams') = 1
         /\ teams' = teams )

C7_CreateTwice == [][C7_Step]_vars

\* "Eng" was refused because "eng" had been created
C7_Witness ==
    /\ last.op = "create_team"
    /\ last.message = "AlreadyExists"
    /\ last.team_name # lower(last.team_name)
    /\ CopiesIn(lower(last.team_name), teams) = 1

(***************************************************************************)
(* C8.  AddMember(u, t) returns NotFound for every username u whenever     *)
(* teams has no row lower(t) at the time of the call, and creates no       *)
(* membership row.                                                         *)
(***************************************************************************)
C8_AddMemberNotFound ==
    ( /\ last.op = "add_member_to_team"
      /\ ~BagIn(lower(last.team_name), last.pre.teams) )
    => ( /\ ~last.success
         /\ last.message = "NotFound"
         /\ team_members = last.pre.team_members )

\* refused while another team exists and has members
C8_Witness ==
    /\ last.op = "add_member_to_team"
    /\ last.message = "NotFound"
    /\ last.pre.teams # EmptyBag
    /\ team_members # EmptyBag

(***************************************************************************)
(* C9.  AddTeamToChat(c, t): on an existing team not yet linked to c it    *)
(* succeeds, inserts the link and returns each member of t exactly once    *)
(* (nothing for a team without members); on a linked pair it returns       *)
(* AlreadyLinked and changes nothing, in particular when it follows a      *)
(* successful AddTeamToChat of the same pair; on a missing team it         *)
(* returns NotFound.                                                       *)
(***************************************************************************)
C9_Outcome ==
    last.op = "add_team_to_chat" =>
        LET t == lower(last.team_name)
            link == <<last.chat_id, t>>
        IN  IF ~BagIn(t, last.pre.teams)
            THEN ~last.success /\ last.message = "NotFound" /\ DB = last.pre
            ELSE IF BagIn(link, last.pre.chat_teams)
            THEN ~last.success /\ last.message = "AlreadyLinked" /\ DB = last.pre
            ELSE /\ last.success
                 /\ chat_teams = last.pre.chat_teams (+) Bag1({link})
                 /\ teams = last.pre.teams
                 /\ team_members = last.pre.team_members
                 /\ last.list = Bag1({r[1] : r \in {x \in Rows(last.pre.team_members) :
                                                       x[2] = t}})

C9_Second ==
    ( /\ last.op = "add_team_to_chat"
      /\ last.success
      /\ last'.op = "add_team_to_chat"
      /\ last'.chat_id = last.chat_id
      /\ lower(last'.team_name) = lower(last.team_name) )
    => ( /\ ~last'.success
         /\ last'.message = "AlreadyLinked"
         /\ <<teams', team_members', chat_teams'>> = <<teams, team_members, chat_teams>> )

C9_AddTeamToChat == []C9_Outcome /\ [][C9_Second]_vars

\* a team with two members is linked while the other team has a member too
C9_Witness ==
    /\ last.op = "add_team_to_chat"
    /\ last.success
    /\ BagCardinality(last.list) = 2
    /\ \E r \in Rows(team_members) : r[2] # lower(last.team_name)

(***************************************************************************)
(* C10.  With one caller, a successful AddMember(u, t) and a successful    *)
(* RemoveMember(u, t) return exactly the chats c with a row                *)
(* (c, lower(t)) in chat_teams at the time of the call, and leave          *)
(* chat_teams as it was.  After CreateTeam("eng") and                      *)
(* AddTeamToChat(100, "eng"), AddMember(u, "eng") returns [100] and the    *)
(* RemoveMember(u, "eng") after it returns [100].                          *)
(***************************************************************************)
C10_LinkedBefore ==
    {r[1] : r \in {x \in Rows(last.pre.chat_teams) : x[2] = lower(last.team_name)}}

C10_EngIn100(members) ==
    [teams |-> Bag1({Eng}), team_members |-> members, chat_teams |-> Bag1({<<100, Eng>>})]

C10_ChatLists ==
    /\ ( /\ last.op \in {"add_member_to_team", "remove_member_from_team"}
         /\ last.success )
       => ( /\ last.list = Bag1(C10_LinkedBefore)
            /\ chat_teams = last.pre.chat_teams )
    /\ ( /\ last.op = "add_member_to_team"
         /\ lower(last.team_name) = Eng
         /\ last.pre = C10_EngIn100(EmptyBag) )
       => ( last.success /\ last.list = Bag1({100}) )
    /\ ( /\ last.op = "remove_member_from_team"
         /\ lower(last.team_name) = Eng
         /\ last.pre = C10_EngIn100(Bag1({PairOf(last)})) )
       => ( last.success /\ last.list = Bag1({100}) )

\* the last call of the example: the member of "eng", linked to chat 100
\* alone, is removed and [100] is returned
C10_Witness ==
    /\ last.op = "remove_member_from_team"
    /\ last.pre = C10_EngIn100(Bag1({PairOf(last)}))
    /\ last.list = Bag1({100})
    /\ DB = C10_EngIn100(EmptyBag)

(***************************************************************************)
(* C11.  Two concurrent AddMember calls for the same (user, team) pair of  *)
(* an existing team, the pair not yet a member: in every interleaving of   *)
(* their statements exactly one returns success and the other returns      *)
(* AlreadyMember, none returns InternalError, and the pair has exactly     *)
(* one row in team_members afterwards.  (A writer that finds the write     *)
(* lock taken waits for the holder's commit, as sqlite3 does within its    *)
(* busy timeout.)                                                          *)
(***************************************************************************)
C11_Pair(p) == <<NormUser(calls[p].username), NormTeam(calls[p].team_name)>>

C11_Race(p, q) ==
    /\ p # q
    /\ calls[p].op = "add_member_to_team"
    /\ calls[q].op = "add_member_to_team"
    /\ C11_Pair(p) = C11_Pair(q)
    /\ TeamExists(base, C11_Pair(p)[2])
    /\ ~BagIn(C11_Pair(p), base.team_members)

C11_ConcurrentAddMember ==
    \A p, q \in Procs :
        (C11_Race(p, q) /\ Returned = {p, q}) =>
            /\ calls[p].success # calls[q].success
            /\ \A x \in {p, q} :
                  /\ calls[x].success => calls[x].message = "Added"
                  /\ ~calls[x].success => calls[x].message = "AlreadyMember"
            /\ CopiesIn(C11_Pair(p), team_members) = 1

\* both calls have found the team and the pair absent; the first has
\* executed its INSERT and holds the write lock, the second is about to
\* execute the same INSERT
C11_Witness ==
    \E p, q \in Procs :
        /\ C11_Race(p, q)
        /\ At(p, "add_member_to_team", "commit")
        /\ wlock = p
        /\ At(q, "add_member_to_team", "insert")

(***************************************************************************)
(* C12.  No raw storage exception crosses the boundary of the core: a      *)
(* call of any of the five mutations or of the four queries (ListTeams,    *)
(* ListTeamMembers, ListUserTeams, ListChatTeams) during which a storage   *)
(* statement fails returns a typed outcome and never raises to its         *)
(* caller.                                                                 *)
(***************************************************************************)
C12_NoRawException == last.message # "Raised"

(***************************************************************************)
(* C13.  ListTeamMembers(t) leaves the store as it was and returns, as a   *)
(* sequence in ascending lexicographic order, exactly the usernames that   *)
(* have a membership row in team lower(t); it returns the empty sequence,  *)
(* not an error, when the team has no members and when there is no such    *)
(* team.                                                                   *)
(***************************************************************************)
C13_Members ==
    {r[1] : r \in {x \in Rows(last.pre.team_members) : x[2] = lower(last.team_name)}}

C13_ListTeamMembers ==
    last.op = "get_team_members" =>
        /\ DB = last.pre
        /\ last.message = "List"
        /\ DOMAIN last.list = 1 .. Cardinality(C13_Members)
        /\ {last.list[i] : i \in DOMAIN last.list} = C13_Members
        /\ \A i, j \in DOMAIN last.list :
              i < j => LexLess(last.list[i], last.list[j])
        /\ (C13_Members = {} => last.list = << >>)

\* a team with the two members "Alice" and "alice" is listed while another
\* team has a member too
C13_Witness ==
    /\ last.op = "get_team_members"
    /\ Len(last.list) = 2
    /\ last.list[1] = <<"A","l","i","c","e">>
    /\ \E r \in Rows(team_members) : r[2] # lower(last.team_name)

(***************************************************************************)
(* C14.  Teams are never deleted or mutated: a successful CreateTeam(t)    *)
(* leaves lower(t) a row of teams, no call of any operation removes or     *)
(* duplicates a row of teams (the set of teams only grows), and every      *)
(* ListTeams returns all the rows of teams; so a team once created is      *)
(* returned by ListTeams in every later state, whatever calls follow.      *)
(***************************************************************************)
C14_Outcome ==
    /\ (last.op = "create_team" /\ last.success)
          => BagIn(lower(last.team_name), teams)
    /\ last.op = "get_teams"
          => /\ last.message = "List"
             /\ {last.list[i] : i \in DOMAIN last.list} = Rows(teams)

C14_Step ==
    \A t \in Rows(teams) : CopiesIn(t, teams') = CopiesIn(t, teams)

C14_TeamsOnlyGrow == []C14_Outcome /\ [][C14_Step]_vars

\* ListTeams returns both teams; one of them is linked to a chat and has a
\* member, the other has no member
C14_Witness ==
    /\ last.op = "get_teams"
    /\ Len(last.list) = 2
    /\ chat_teams # EmptyBag
    /\ team_members # EmptyBag
    /\ \E t \in Rows(teams) : \A r \in Rows(team_members) : r[2] # t

(***************************************************************************)
(* C15.  No lost invitation: when an AddMember(u, t) and an                *)
(* AddTeamToChat(c, t) of concurrent callers have both succeeded, then in  *)
(* every interleaving of their statements u is in the members_to_add       *)
(* returned by AddTeamToChat or c is in the chats_to_add returned by       *)
(* AddMember: each call commits its own insert before it reads the other   *)
(* table.                                                                  *)
(***************************************************************************)
C15_BothSucceeded(p, q) ==
    /\ p # q
    /\ Returned = {p, q}
    /\ calls[p].op = "add_member_to_team"
    /\ calls[p].success
    /\ calls[q].op = "add_team_to_chat"
    /\ calls[q].success
    /\ NormTeam(calls[p].team_name) = NormTeam(calls[q].team_name)

C15_NoLostInvitation ==
    \A p, q \in Procs :
        C15_BothSucceeded(p, q) =>
            \/ BagIn(NormUser(calls[p].username), calls[q].list)
            \/ BagIn(calls[q].chat_id, calls[p].list)

\* the two calls overlapped: both had committed before either read the
\* other table, so each of the two callers is told
C15_Witness ==
    \E p, q \in Procs :
        /\ C15_BothSucceeded(p, q)
        /\ BagIn(NormUser(calls[p].username), calls[q].list)
        /\ BagIn(calls[q].chat_id, calls[p].list)

(***************************************************************************)
(* C16.  A successful OffboardUser(u) deletes exactly the membership rows  *)
(* whose username is u (as the core keys it): teams, chat_teams and every  *)
(* membership row of another user are as before the call.  A successful   *)
(* RemoveMember(u, t) deletes the row (u, lower(t)) and nothing else.      *)
(***************************************************************************)
C16_Deleted ==
    IF last.op = "offboard_user"
    THEN {r \in Rows(last.pre.team_members) : r[1] = NormUser(last.username)}
    ELSE {<<NormUser(last.username), lower(last.team_name)>>}

C16_Frame ==
    ( /\ last.op \in {"offboard_user", "remove_member_from_team"}
      /\ last.success )
    => /\ teams = last.pre.teams
       /\ chat_teams = last.pre.chat_teams
       /\ C16_Deleted # {}
       /\ \A r \in C16_Deleted : BagIn(r, last.pre.team_members)
       /\ \A r \in Rows(last.pre.team_members) \cup Rows(team_members) :
             CopiesIn(r, team_members) =
                 IF r \in C16_Deleted THEN 0 ELSE CopiesIn(r, last.pre.team_members)

\* a user in both teams is offboarded: both rows are gone, the rows of the
\* other user and the chat links stay
C16_Witness ==
    /\ last.op = "offboard_user"
    /\ last.success
    /\ Cardinality(C16_Deleted) = 2
    /\ team_members # EmptyBag
    /\ chat_teams # EmptyBag

====
